---- MODULE Spec2Model ----
(***************************************************************************)
(* Model of the typescript-effect visitor                                  *)
(* (packages/plugins/typescript/effect/src/visitor.ts) and of the Java     *)
(* resolvers plugin entry point                                            *)
(* (packages/plugins/java/resolvers/src/index.ts).                         *)
(*                                                                         *)
(* Text is a sequence of tokens: the literal pieces of a template string   *)
(* and the values interpolated into it.  A JavaScript value is a record    *)
(* [typeof, value]; a string value carries its text.                       *)
(***************************************************************************)
EXTENDS Integers, Sequences, FiniteSets, TLC

\* ------------------------------------------------------------------ bounds
MaxVisits == 2
MaxDefinitions == 3

Runs == {1, 2}

\* ------------------------------------------------------- JavaScript values
\* Short strings (names, option values) carry a string; texts (fragments,
\* rendered output) carry a token sequence.
Undefined == [typeof |-> "undefined", value |-> ""]
Str(s) == [typeof |-> "string", value |-> s]
Null == [typeof |-> "object", value |-> <<>>]
NoValue == [typeof |-> "undefined", value |-> <<>>]
Text(tokens) == [typeof |-> "string", value |-> tokens]

\* JavaScript truthiness: undefined, null and '' are falsy.
Truthy(v) == v.typeof = "string" /\ v.value # ""
TruthyText(v) == v.typeof = "string" /\ v.value # <<>>

\* Array.prototype.join: the texts of `parts`, `sep` between neighbours.
RECURSIVE join(_, _)
join(parts, sep) ==
  IF parts = <<>> THEN <<>>
  ELSE IF Len(parts) = 1 THEN parts[1]
  ELSE parts[1] \o <<sep>> \o join(Tail(parts), sep)

\* ------------------------------------------------------------------ inputs
DocumentModes == {"documentNode", "string", "external"}

Configs ==
  [documentMode : DocumentModes,
   useTypeImports : BOOLEAN,
   importOperationTypesFrom : {Undefined, Str(""), Str("Types")}]

\* OperationDefinitionNode: name is undefined for an anonymous operation.
Nodes ==
  {[name |-> Undefined, operation |-> "query"],
   [name |-> Str("Add"), operation |-> "query"],
   [name |-> Str("Sub"), operation |-> "mutation"]}

\* ----------------------------------------------------------- static text
clientCode == "export type GraphQLSuccessResponse ... export class GraphQLClient ... }"

\* Mutant: the two mode tests ask for documentNode instead of string.
additionalStaticContent_testsDocumentNode(documentMode) ==
  << "\nexport type GraphQLOperationOptions = {\n  preferredOpName?: string;\n};\n\ntype GraphQLOperationArgs = {\n  document: ",
     IF documentMode = "documentNode" THEN "DocumentNode" ELSE "string",
     ";\n  fallbackOperationName: string;\n};\n\n",
     clientCode,
     "\n\nconst makeGraphQLOperation = ... {\n    const operationName = opts?.preferredOpName ?? fallbackOperationName;\n    const query = ",
     IF documentMode = "documentNode" THEN "print(document)" ELSE "document",
     ";\n\n    return Effect.flatMap(GraphQLClient, client => ... );\n  };\n" >>

additionalStaticContent(documentMode) ==
  << "\nexport type GraphQLOperationOptions = {\n  preferredOpName?: string;\n};\n\ntype GraphQLOperationArgs = {\n  document: ",
     IF documentMode = "string" THEN "string" ELSE "DocumentNode",
     ";\n  fallbackOperationName: string;\n};\n\n",
     clientCode,
     "\n\nconst makeGraphQLOperation = ... {\n    const operationName = opts?.preferredOpName ?? fallbackOperationName;\n    const query = ",
     IF documentMode = "string" THEN "document" ELSE "print(document)",
     ";\n\n    return Effect.flatMap(GraphQLClient, client => ... );\n  };\n" >>

\* -------------------------------------------------------------- constructor
\* createNamedImport: one import line; a name is rendered `type X` when it
\* is a type import and useTypeImports is set.
createNamedImport(config, imports, from) ==
  LET normalizedImports ==
        [i \in DOMAIN imports |->
           <<IF config.useTypeImports /\ imports[i][2] = "type"
             THEN "type " \o imports[i][1]
             ELSE imports[i][1]>>]
  IN <<"import { ">> \o join(normalizedImports, ", ") \o <<" } from '", from, "';">>

createNamesaceImport(namespace, from, type) ==
  <<"import ", IF type = "type" THEN "type " ELSE "", "* as ", namespace,
    " from '", from, "';">>

\* Mutant: `print` is imported once more, in a line of its own.
ConstructorImports_printTwice(config) ==
  << createNamedImport(config,
       << <<"Context", "value">>, <<"Data", "value">>,
          <<"Effect", "value">>, <<"Layer", "value">> >>, "effect"),
     createNamedImport(config,
       << <<"DocumentNode", "type">>, <<"ExecutionResult", "type">>,
          <<"print", "value">> >>, "graphql"),
     createNamedImport(config, << <<"print", "value">> >>, "graphql"),
     createNamesaceImport("Http", "@effect/platform/HttpClient", "value") >>

\* The import lines the constructor pushes, in order.
ConstructorImports(config) ==
  << createNamedImport(config,
       << <<"Context", "value">>, <<"Data", "value">>,
          <<"Effect", "value">>, <<"Layer", "value">> >>, "effect"),
     createNamedImport(config,
       << <<"DocumentNode", "type">>, <<"ExecutionResult", "type">>,
          <<"print", "value">> >>, "graphql"),
     createNamesaceImport("Http", "@effect/platform/HttpClient", "value") >>

\* new EffectVisitor(schema, fragments, rawConfig)
EffectVisitor(config) ==
  [config |-> config,
   _additionalImports |-> ConstructorImports(config),
   _externalImportPrefix |->
     IF Truthy(config.importOperationTypesFrom)
     THEN config.importOperationTypesFrom.value \o "."
     ELSE "",
   _operationsToInclude |-> <<>>]

\* -------------------------------------------------------------- operations
\* Mutant: an operation whose name is already pending is not appended.
buildOperation_skipsKnownName(self, node, documentVariableName, operationType, operationResultType, operationVariablesTypes) ==
  [self |-> IF \E i \in DOMAIN self._operationsToInclude :
                 self._operationsToInclude[i].node.name = node.name
            THEN self
            ELSE [self EXCEPT !._operationsToInclude =
                    Append(@, [node |-> node,
                               documentVariableName |-> documentVariableName,
                               operationType |-> operationType,
                               operationResultType |->
                                 self._externalImportPrefix \o operationResultType,
                               operationVariablesTypes |->
                                 self._externalImportPrefix \o operationVariablesTypes])],
   ret |-> Null]

\* Mutant: the helper is returned as the node's own text as well.
buildOperation_emitsHelper(self, node, documentVariableName, operationType, operationResultType, operationVariablesTypes) ==
  [self |-> [self EXCEPT !._operationsToInclude =
               Append(@, [node |-> node,
                          documentVariableName |-> documentVariableName,
                          operationType |-> operationType,
                          operationResultType |->
                            self._externalImportPrefix \o operationResultType,
                          operationVariablesTypes |->
                            self._externalImportPrefix \o operationVariablesTypes])],
   ret |-> Text(<<"export const ", node.name.value, " = makeGraphQLOperation<",
                  self._externalImportPrefix \o operationVariablesTypes, ", ",
                  self._externalImportPrefix \o operationResultType,
                  ">({\n  document: ", documentVariableName,
                  ",\n  fallbackOperationName: '", node.name.value, "',\n});">>)]

\* Mutant: the variables type is stored without the prefix.
buildOperation_prefixesResultOnly(self, node, documentVariableName, operationType, operationResultType, operationVariablesTypes) ==
  [self |-> [self EXCEPT !._operationsToInclude =
               Append(@, [node |-> node,
                          documentVariableName |-> documentVariableName,
                          operationType |-> operationType,
                          operationResultType |->
                            self._externalImportPrefix \o operationResultType,
                          operationVariablesTypes |-> operationVariablesTypes])],
   ret |-> Null]

\* buildOperation: prefixes both type names, appends the pending entry and
\* returns null.
buildOperation(self, node, documentVariableName, operationType, operationResultType, operationVariablesTypes) ==
  [self |-> [self EXCEPT !._operationsToInclude =
               Append(@, [node |-> node,
                          documentVariableName |-> documentVariableName,
                          operationType |-> operationType,
                          operationResultType |->
                            self._externalImportPrefix \o operationResultType,
                          operationVariablesTypes |->
                            self._externalImportPrefix \o operationVariablesTypes])],
   ret |-> Null]

pascalCase(operation) ==
  IF operation = "query" THEN "Query"
  ELSE IF operation = "mutation" THEN "Mutation"
  ELSE "Subscription"

\* super.OperationDefinition(node) of ClientSideBaseVisitor, with its default
\* naming: derives the document variable and the two type names from the
\* operation's name and kind, renders the document constant unless
\* documentMode is external, calls buildOperation once and returns the
\* truthy ones of [documentString, additional] joined by a newline.
ClientSideBaseVisitor_OperationDefinition(self, node) ==
  LET documentVariableName == node.name.value \o "Document"
      operationType == pascalCase(node.operation)
      operationResultType == node.name.value \o operationType
      operationVariablesTypes == node.name.value \o operationType \o "Variables"
      documentString ==
        IF self.config.documentMode # "external" /\ documentVariableName # ""
        THEN Text(<<"export const ", documentVariableName, " = ",
                    "gql(" \o node.operation \o " " \o node.name.value \o ")", ";">>)
        ELSE Text(<<>>)
      built == buildOperation(self, node, documentVariableName, operationType,
                              operationResultType, operationVariablesTypes)
      additional == built.ret
      kept == SelectSeq(<<documentString, additional>>, TruthyText)
  IN [self |-> built.self,
      ret |-> Text(join([i \in DOMAIN kept |-> kept[i].value], "\n")),
      warn |-> <<>>]

\* Mutant: the warning is not followed by a return.
OperationDefinition_fallsThrough(self, node) ==
  LET operationName == node.name
      res == ClientSideBaseVisitor_OperationDefinition(self, node)
  IN IF ~Truthy(operationName)
     THEN [self |-> res.self, ret |-> res.ret, warn |-> <<node>>]
     ELSE res

\* OperationDefinition(node): an anonymous operation is warned about and
\* yields null; a named one goes to the base class.
OperationDefinition(self, node) ==
  LET operationName == node.name
  IN IF ~Truthy(operationName)
     THEN [self |-> self, ret |-> Null, warn |-> <<node>>]
     ELSE ClientSideBaseVisitor_OperationDefinition(self, node)

\* Mutant: the document variable is qualified in documentNode mode.
getDocumentNodeVariable_wrongMode(self, documentVariableName) ==
  IF self.config.documentMode = "documentNode"
  THEN "Operations." \o documentVariableName
  ELSE documentVariableName

getDocumentNodeVariable(self, documentVariableName) ==
  IF self.config.documentMode = "external"
  THEN "Operations." \o documentVariableName
  ELSE documentVariableName

\* Mutant: the pending list is emptied once it has been rendered.
sdkContent_resets(self) ==
  LET ops == self._operationsToInclude
      allPossibleOperations ==
        [i \in DOMAIN ops |->
           <<"export const ", ops[i].node.name.value, " = makeGraphQLOperation<",
             ops[i].operationVariablesTypes, ", ", ops[i].operationResultType,
             ">({\n  document: ",
             IF self.config.documentMode = "external"
             THEN "Operations." \o ops[i].documentVariableName
             ELSE ops[i].documentVariableName,
             ",\n  fallbackOperationName: '", ops[i].node.name.value, "',\n});">>]
  IN [self |-> [self EXCEPT !._operationsToInclude = <<>>],
      ret |-> Text(additionalStaticContent(self.config.documentMode) \o <<"\n">>
                   \o join(allPossibleOperations, "\n") \o <<"\n">>)]

\* get sdkContent
sdkContent(self) ==
  LET ops == self._operationsToInclude
      allPossibleOperations ==
        [i \in DOMAIN ops |->
           LET operationName == ops[i].node.name.value
               docVarName == getDocumentNodeVariable(self, ops[i].documentVariableName)
           IN <<"export const ", operationName, " = makeGraphQLOperation<",
                ops[i].operationVariablesTypes, ", ", ops[i].operationResultType,
                ">({\n  document: ", docVarName,
                ",\n  fallbackOperationName: '", operationName, "',\n});">>]
  IN [self |-> self,
      ret |-> Text(additionalStaticContent(self.config.documentMode) \o <<"\n">>
                   \o join(allPossibleOperations, "\n") \o <<"\n">>)]

\* ------------------------------------------------- Java resolvers plugin
\* new JavaResolversVisitor(config, schema, defaultPackageName): the package
\* is the configured one or else the one derived from the output path.
JavaResolversVisitor(package) ==
  [package |-> package, className |-> "Resolvers"]

JavaPackages == {"com.app.generated", "resolvers"}

getPackageName(self) == <<"package ", self.package, ";\n">>

getImports(self) ==
  <<"import graphql.schema.TypeResolver;", "\n",
    "import graphql.schema.DataFetcher;", "\n">>

wrapWithClass(self, content) ==
  <<"public class ", self.className, " {\n">> \o content \o <<"\n}">>

\* What leaving a top-level definition of the schema AST puts into
\* visitorResult.definitions: the text of a generated declaration, or the
\* node itself when the visitor has no handler for its kind.
LeaveResults ==
  {Text(<<"public interface QueryResolvers { ... }">>),
   Text(<<"public interface SearchResult extends TypeResolver { ... }">>),
   [typeof |-> "object", value |-> <<"ScalarTypeDefinition">>]}

IsString(d) == d.typeof = "string"

\* Mutant: a fragment equal to an earlier one is left out of the body.
plugin_dropsRepeated(self, visitorResult) ==
  LET mappersImports == getImports(self)
      packageName == getPackageName(self)
      strings == SelectSeq(visitorResult, IsString)
      first == {i \in DOMAIN strings : \A j \in 1..(i - 1) : strings[j] # strings[i]}
      kept == [k \in 1..Cardinality(first) |->
                 strings[CHOOSE i \in first :
                           Cardinality({j \in first : j < i}) = k - 1]]
      blockContent == join([i \in DOMAIN kept |-> kept[i].value], "\n")
      wrappedContent == wrapWithClass(self, blockContent)
  IN Text(join(<<packageName, mappersImports, wrappedContent>>, "\n"))

\* plugin: lines 24-29, from the finished traversal result to the output.
plugin(self, visitorResult) ==
  LET mappersImports == getImports(self)
      packageName == getPackageName(self)
      kept == SelectSeq(visitorResult, IsString)
      blockContent == join([i \in DOMAIN kept |-> kept[i].value], "\n")
      wrappedContent == wrapWithClass(self, blockContent)
  IN Text(join(<<packageName, mappersImports, wrappedContent>>, "\n"))

\* ------------------------------------------------------------------- state
\* generator       the generation module the caller selected
\* visitor[r]      the visitor instance of generation run r
\* visited[r]      the operation nodes the traversal has handed to it
\* definitions[r]  the values its visits returned, in visit order
\* console[r]      the nodes console.warn was called for
\* lastCall[r]     the function last called in run r, ret[r] what it returned
VARIABLES generator, visitor, visited, definitions, console, lastCall, ret
vars == <<generator, visitor, visited, definitions, console, lastCall, ret>>

Init ==
  /\ \/ /\ generator = "typescript-effect"
        /\ \E c \in Configs : visitor = [r \in Runs |-> EffectVisitor(c)]
     \/ /\ generator = "java-resolvers"
        /\ \E p \in JavaPackages : visitor = [r \in Runs |-> JavaResolversVisitor(p)]
  /\ visited = [r \in Runs |-> <<>>]
  /\ definitions = [r \in Runs |-> <<>>]
  /\ console = [r \in Runs |-> <<>>]
  /\ lastCall = [r \in Runs |-> "constructor"]
  /\ ret = [r \in Runs |-> NoValue]

\* Mutant: the pending list is one list shared by all instances.
Visit_sharedPending(r, node) ==
  /\ generator = "typescript-effect"
  /\ Len(visited[r]) < MaxVisits
  /\ LET shared == CHOOSE o \in Runs :
                     \A q \in Runs : Len(visitor[q]._operationsToInclude)
                                       <= Len(visitor[o]._operationsToInclude)
         res == OperationDefinition(
                  [visitor[r] EXCEPT !._operationsToInclude =
                                       visitor[shared]._operationsToInclude], node)
     IN /\ visitor' = [visitor EXCEPT ![r] = res.self]
        /\ definitions' = [definitions EXCEPT ![r] = Append(@, res.ret)]
        /\ console' = [console EXCEPT ![r] = @ \o res.warn]
        /\ ret' = [ret EXCEPT ![r] = res.ret]
  /\ visited' = [visited EXCEPT ![r] = Append(@, node)]
  /\ lastCall' = [lastCall EXCEPT ![r] = "OperationDefinition"]
  /\ UNCHANGED generator

\* The traversal leaves an operation definition of run r.
Visit(r, node) ==
  /\ generator = "typescript-effect"
  /\ Len(visited[r]) < MaxVisits
  /\ LET res == OperationDefinition(visitor[r], node)
     IN /\ visitor' = [visitor EXCEPT ![r] = res.self]
        /\ definitions' = [definitions EXCEPT ![r] = Append(@, res.ret)]
        /\ console' = [console EXCEPT ![r] = @ \o res.warn]
        /\ ret' = [ret EXCEPT ![r] = res.ret]
  /\ visited' = [visited EXCEPT ![r] = Append(@, node)]
  /\ lastCall' = [lastCall EXCEPT ![r] = "OperationDefinition"]
  /\ UNCHANGED generator

\* The caller reads visitor.sdkContent of run r.
ReadSdkContent(r) ==
  /\ generator = "typescript-effect"
  /\ LET res == sdkContent(visitor[r])
     IN /\ visitor' = [visitor EXCEPT ![r] = res.self]
        /\ ret' = [ret EXCEPT ![r] = res.ret]
  /\ lastCall' = [lastCall EXCEPT ![r] = "sdkContent"]
  /\ UNCHANGED <<generator, visited, definitions, console>>

\* oldVisit (line 23) leaves one more top-level definition of the schema.
Leave(r, d) ==
  /\ generator = "java-resolvers"
  /\ lastCall[r] # "plugin"
  /\ Len(definitions[r]) < MaxDefinitions
  /\ definitions' = [definitions EXCEPT ![r] = Append(@, d)]
  /\ lastCall' = [lastCall EXCEPT ![r] = "oldVisit"]
  /\ UNCHANGED <<generator, visitor, visited, console, ret>>

\* The traversal is over; the plugin assembles and returns its result.
Assemble(r) ==
  /\ generator = "java-resolvers"
  /\ lastCall[r] # "plugin"
  /\ ret' = [ret EXCEPT ![r] = plugin(visitor[r], definitions[r])]
  /\ lastCall' = [lastCall EXCEPT ![r] = "plugin"]
  /\ UNCHANGED <<generator, visitor, visited, definitions, console>>

Next ==
  \E r \in Runs :
    \/ \E node \in Nodes : Visit(r, node)
    \/ ReadSdkContent(r)
    \/ \E d \in LeaveResults : Leave(r, d)
    \/ Assemble(r)

Spec == Init /\ [][Next]_vars

\* ------------------------------------------------------ reading the state
Effect == generator = "typescript-effect"
Java == generator = "java-resolvers"

IsNamed(node) == node.name.typeof = "string"
IsAnonymous(node) == ~IsNamed(node)
NamedVisited(r) == SelectSeq(visited[r], IsNamed)
AnonymousVisited(r) == SelectSeq(visited[r], IsAnonymous)
Pending(r) == visitor[r]._operationsToInclude
Last(seq) == seq[Len(seq)]

\* The token only an operation helper contains, and the helpers of a text.
HelperMark == " = makeGraphQLOperation<"
HelperStarts(text) == {i \in DOMAIN text : i > 1 /\ text[i] = HelperMark}
HasHelper(v) == v.typeof = "string" /\ HelperStarts(v.value) # {}

\* The type names the base class hands to buildOperation for a node.
PassedResultType(node) ==
  node.name.value \o (IF node.operation = "query" THEN "Query" ELSE "Mutation")
PassedVariablesType(node) == PassedResultType(node) \o "Variables"

\* ---------------------------------------------------------------------- C1
\* C1: the pending-operation list holds exactly the named operations
\* visited, one entry each, in visit order, and nothing for an anonymous
\* one; its length is the number of named visits even when names repeat.
C1_PendingIsNamedVisited ==
  Effect =>
    \A r \in Runs :
      /\ Len(Pending(r)) = Len(NamedVisited(r))
      /\ \A i \in DOMAIN Pending(r) : Pending(r)[i].node = NamedVisited(r)[i]

C1_Witness ==
  /\ Effect
  /\ \E r \in Runs :
       /\ Len(visited[r]) = 2
       /\ visited[r][1].name = visited[r][2].name
       /\ IsNamed(visited[r][1])
       /\ Len(Pending(r)) = 2

\* ---------------------------------------------------------------------- C2
AnonymousVisitStep(r) ==
  /\ Len(visited'[r]) = Len(visited[r]) + 1
  /\ IsAnonymous(Last(visited'[r]))

C2_AnonymousStep ==
  \A r \in Runs :
    Effect /\ AnonymousVisitStep(r) =>
      /\ console'[r] = Append(console[r], Last(visited'[r]))
      /\ ret'[r] = Null
      /\ Last(definitions'[r]) = Null
      /\ visitor'[r] = visitor[r]

C2_Recorded ==
  Effect =>
    \A r \in Runs :
      /\ console[r] = AnonymousVisited(r)
      /\ lastCall[r] = "sdkContent" =>
           Cardinality(HelperStarts(ret[r].value)) = Len(NamedVisited(r))

\* C2: a visit of an anonymous operation warns once, returns null and
\* leaves the pending list and the imports as they were; the visits go on,
\* and the helpers rendered afterwards are those of the named operations.
C2_AnonymousIsNoFailure == [][C2_AnonymousStep]_vars /\ []C2_Recorded

C2_Witness ==
  /\ Effect
  /\ \E r \in Runs :
       /\ Len(NamedVisited(r)) = 1
       /\ Len(AnonymousVisited(r)) = 1
       /\ Len(console[r]) = 1
       /\ lastCall[r] = "sdkContent"
       /\ Cardinality(HelperStarts(ret[r].value)) = 1

HelperAt(text, start, entry, external) ==
  /\ text[start] = "export const "
  /\ text[start + 1] = entry.node.name.value
  /\ text[start + 2] = HelperMark
  /\ text[start + 3] = entry.operationVariablesTypes
  /\ text[start + 5] = entry.operationResultType
  /\ text[start + 7] =
       (IF external THEN "Operations." ELSE "") \o entry.documentVariableName
  /\ text[start + 9] = entry.node.name.value

\* C4: sdkContent is the prelude, a newline, and one helper per pending
\* entry in accumulation order, newline-separated: the k-th helper declares
\* and falls back to the k-th entry's operation name, is typed by its
\* variables and result types and names its document variable, qualified
\* with `Operations.` exactly in external mode; without entries only the
\* prelude (and the two newlines) is rendered.
C4_SdkContentRendersPending ==
  Effect =>
    \A r \in Runs :
      lastCall[r] = "sdkContent" =>
        LET text == ret[r].value
            ops == Pending(r)
            mode == visitor[r].config.documentMode
            prelude == Len(additionalStaticContent(mode))
        IN /\ ret[r].typeof = "string"
           /\ SubSeq(text, 1, prelude) = additionalStaticContent(mode)
           /\ text[prelude + 1] = "\n"
           /\ Cardinality(HelperStarts(text)) = Len(ops)
           /\ Cardinality({i \in DOMAIN text : text[i] = "export const "}) = Len(ops)
           /\ \A k \in DOMAIN ops :
                HelperAt(text, prelude + 2 + 12 * (k - 1), ops[k], mode = "external")
           /\ ops = <<>> => Len(text) = prelude + 2

C4_Witness ==
  /\ Effect
  /\ \E r \in Runs :
       /\ lastCall[r] = "sdkContent"
       /\ visitor[r].config.documentMode = "external"
       /\ Len(Pending(r)) = 2
       /\ Pending(r)[1].node.name # Pending(r)[2].node.name

RECURSIVE Flatten(_)
Flatten(texts) ==
  IF texts = <<>> THEN <<>> ELSE texts[1].value \o Flatten(Tail(texts))

IsFragmentToken(t) ==
  \E d \in LeaveResults : IsString(d) /\ \E i \in DOMAIN d.value : d.value[i] = t
IsNonStringToken(t) ==
  \E d \in LeaveResults : ~IsString(d) /\ \E i \in DOMAIN d.value : d.value[i] = t
IsImportToken(t) ==
  t \in {"import graphql.schema.TypeResolver;", "import graphql.schema.DataFetcher;"}

\* C6: the Java plugin returns the package line, the import block and the
\* class-wrapped body in that order, joined by newlines; the body is the
\* string-valued fragments of the traversal result in visit order, equal
\* ones kept, newline-separated, and nothing of a non-string result.
C6_JavaAssembly ==
  Java =>
    \A r \in Runs :
      lastCall[r] = "plugin" =>
        LET out == ret[r].value
            frags == {i \in DOMAIN out : IsFragmentToken(out[i])}
            imports == {i \in DOMAIN out : IsImportToken(out[i])}
            class == {i \in DOMAIN out : out[i] = "public class "}
        IN /\ out[1] = "package "
           /\ out[2] = visitor[r].package
           /\ out[4] = "\n"
           /\ Cardinality(imports) = 2
           /\ Cardinality(class) = 1
           /\ \A i \in imports : 4 < i /\ \A c \in class : i < c /\ out[c - 1] = "\n"
           /\ \A f \in frags : \A c \in class : c < f
           /\ out[Len(out)] = "\n}"
           /\ SelectSeq(out, IsFragmentToken) = Flatten(SelectSeq(definitions[r], IsString))
           /\ \A i \in DOMAIN out : ~IsNonStringToken(out[i])
           /\ \A f \in frags :
                f + 1 < Len(out) => out[f + 1] = "\n" /\ f + 2 \in frags

C6_Witness ==
  /\ Java
  /\ \E r \in Runs :
       /\ lastCall[r] = "plugin"
       /\ Len(definitions[r]) = 3
       /\ definitions[r][1] = definitions[r][3]
       /\ IsString(definitions[r][1])
       /\ ~IsString(definitions[r][2])

\* ---------------------------------------------------------------------- C7
RecordedImports ==
  { <<"Context", "effect", "value">>, <<"Data", "effect", "value">>,
    <<"Effect", "effect", "value">>, <<"Layer", "effect", "value">>,
    <<"DocumentNode", "graphql", "type">>, <<"ExecutionResult", "graphql", "type">>,
    <<"print", "graphql", "value">>,
    <<"Http", "@effect/platform/HttpClient", "value">> }

LineModule(line) == line[Len(line) - 1]
RendersAsValue(line, symbol) == {i \in DOMAIN line : line[i] = symbol}
RendersAsType(line, symbol) == {i \in DOMAIN line : line[i] = "type " \o symbol}

ExpectedPrefix(config) ==
  IF config.importOperationTypesFrom.typeof = "string"
       /\ config.importOperationTypesFrom.value # ""
  THEN config.importOperationTypesFrom.value \o "."
  ELSE ""

\* C8: with importOperationTypesFrom set to an alias A every pending entry
\* stores `A.` followed by the result type name and `A.` followed by the
\* variables type name it was passed; without it (absent or empty) it
\* stores both names as passed. The prefix never changes after construction.
C8_TypesPrefixed ==
  Effect =>
    \A r \in Runs :
      /\ visitor[r]._externalImportPrefix = ExpectedPrefix(visitor[r].config)
      /\ \A i \in DOMAIN Pending(r) :
           LET e == Pending(r)[i]
           IN /\ e.operationResultType =
                   ExpectedPrefix(visitor[r].config) \o PassedResultType(e.node)
              /\ e.operationVariablesTypes =
                   ExpectedPrefix(visitor[r].config) \o PassedVariablesType(e.node)

C8_Witness ==
  /\ Effect
  /\ \E r \in Runs :
       /\ visitor[r].config.importOperationTypesFrom = Str("Types")
       /\ Len(Pending(r)) = 2
       /\ Pending(r)[1].operationVariablesTypes = "Types.AddQueryVariables"
       /\ Pending(r)[2].operationResultType = "Types.SubMutation"

\* ---------------------------------------------------------------------- C9
ReferenceVisitor(mode) ==
  EffectVisitor([documentMode |-> mode, useTypeImports |-> FALSE,
                 importOperationTypesFrom |-> Undefined])

\* The text up to the first helper, without the newlines that end it.
RECURSIVE StripNewlines(_)
StripNewlines(text) ==
  IF text # <<>> /\ Last(text) = "\n"
  THEN StripNewlines(SubSeq(text, 1, Len(text) - 1))
  ELSE text

PreludePart(text) ==
  LET starts == {i \in DOMAIN text : text[i] = "export const "}
      end == IF starts = {} THEN Len(text)
             ELSE (CHOOSE i \in starts : \A j \in starts : i <= j) - 1
  IN StripNewlines(SubSeq(text, 1, end))

\* C9: the prelude of sdkContent is the one a fresh visitor with default
\* other options renders in the same documentMode, whatever was visited;
\* its document type is `string` and its query is `document` in string
\* mode, `DocumentNode` and `print(document)` in every other mode.
C9_PreludeDependsOnModeOnly ==
  Effect =>
    \A r \in Runs :
      lastCall[r] = "sdkContent" =>
        LET mode == visitor[r].config.documentMode
            prelude == PreludePart(ret[r].value)
        IN /\ prelude = PreludePart(sdkContent(ReferenceVisitor(mode)).ret.value)
           /\ Len(prelude) = 7
           /\ prelude[2] = (IF mode = "string" THEN "string" ELSE "DocumentNode")
           /\ prelude[6] = (IF mode = "string" THEN "document" ELSE "print(document)")
           /\ \A r2 \in Runs :
                lastCall[r2] = "sdkContent" => PreludePart(ret[r2].value) = prelude

C9_Witness ==
  /\ Effect
  /\ lastCall[1] = "sdkContent"
  /\ lastCall[2] = "sdkContent"
  /\ visitor[1].config.documentMode = "external"
  /\ visitor[1].config.importOperationTypesFrom = Str("Types")
  /\ Len(Pending(1)) = 2
  /\ Len(Pending(2)) = 0
  /\ PreludePart(ret[1].value) = PreludePart(ret[2].value)

\* --------------------------------------------------------------------- C10
C10_ReadStep ==
  \A r \in Runs :
    /\ Effect /\ visited'[r] = visited[r] =>
         /\ visitor'[r] = visitor[r]
         /\ definitions'[r] = definitions[r]
         /\ console'[r] = console[r]
         /\ lastCall[r] = "sdkContent" => ret'[r] = ret[r]
    /\ Effect /\ lastCall[r] = "sdkContent" /\ visited'[r] # visited[r]
         /\ IsNamed(Last(visited'[r])) =>
         /\ Len(Pending(r)') = Len(Pending(r)) + 1
         /\ SubSeq(Pending(r)', 1, Len(Pending(r))) = Pending(r)

C10_ReadsAll ==
  Effect =>
    \A r \in Runs :
      lastCall[r] = "sdkContent" =>
        /\ Cardinality(HelperStarts(ret[r].value)) = Len(Pending(r))
        /\ \A k \in DOMAIN Pending(r) :
             \E i \in HelperStarts(ret[r].value) :
               ret[r].value[i + 1] = Pending(r)[k].operationVariablesTypes

\* C10: a step that is no visit (a read of sdkContent) leaves visitors,
\* fragments and warnings as they were, and a read right after a read
\* returns the same text; a named visit that follows a read appends to the
\* entries already there, and every read renders all entries so far.
C10_ReadHasNoEffect == [][C10_ReadStep]_vars /\ []C10_ReadsAll

C10_Witness ==
  /\ Effect
  /\ \E r \in Runs :
       /\ lastCall[r] = "sdkContent"
       /\ Len(Pending(r)) = 2
       /\ Cardinality(HelperStarts(ret[r].value)) = 2
====
